---- MODULE Spec2Model ----
(***************************************************************************)
(* Guardrail evaluation and monitoring subsystem of ai-news-workflow:      *)
(*   src/guardrails/content_safety_guardrail.py  ContentSafetyGuardrail    *)
(*   src/guardrails/base_guardrail.py            BaseGuardrail,            *)
(*                                               GuardrailChain            *)
(*   src/guardrails/guardrail_monitor.py         GuardrailMonitor          *)
(*                                                                         *)
(* Scores are floats in [0,1] in the source; here they are integers in     *)
(* hundredths (0.2 is 20, 0.9 is 90).  A text is a sequence of fragments,  *)
(* each on a line of its own; a fragment matches the pattern of at most    *)
(* one harm category, once.                                                *)
(***************************************************************************)
EXTENDS Integers, Sequences, FiniteSets, TLC

\* ------------------------------------------------------------------ bounds
MaxLen == 2        \* fragments in an input text
MaxInvocations == 2 \* a guardrail is not called once its invocations counter reaches this
NGuardrails == 2   \* guardrails in the chain
MaxEvents == 2     \* log_event calls made by concurrent producers
MaxSeqEvents == 3  \* log_event calls made one after another
MaxDay == 2        \* calendar days the clock runs through
NProc == 2         \* producers calling the monitor concurrently
MaxFeedback == 2   \* record_user_feedback calls made
MaxMatches == 6    \* fragments in a text given to the pattern layer alone
NThreads == 2      \* threads sharing one guardrail instance
MaxThreadCalls == 2 \* process calls made by the threads together

\* ------------------------------------------------------- program constants
PatternWeight == 20             \* len(matches) * 0.2
DefaultThreshold == 80          \* threshold: float = 0.8
DefaultExtremeThreshold == 90   \* config.get("extreme_threshold", 0.9)

Min(a, b) == IF a <= b THEN a ELSE b
Max(a, b) == IF a >= b THEN a ELSE b

\* The keys of harmful_patterns, in the dict's order; also the default
\* categories of a guardrail.
AllCategories ==
    <<"hate", "harassment", "self-harm", "sexual", "violence", "misleading">>

Range(s) == {s[i] : i \in 1..Len(s)}

\* ------------------------------------------------------------------- texts
\* A fragment of text: kind "text" with cats = <<c>> matches the pattern of
\* category c once; kind "banner" is the warning label _modify_content
\* builds from the flagged categories cats.
TextCats == {"self-harm", "violence"}
Fragments == [kind : {"text"}, cats : {<<c>> : c \in TextCats}]

RECURSIVE SeqsUpTo(_, _)
SeqsUpTo(S, n) ==
    IF n = 0 THEN {<<>>}
    ELSE LET shorter == SeqsUpTo(S, n - 1)
         IN  shorter \cup {Append(s, x) : s \in {t \in shorter : Len(t) = n - 1}, x \in S}

\* The inputs of process: a str, or a structure (is_str = FALSE) whose str()
\* holds the same fragments.
Contents == [is_str : BOOLEAN, toks : SeqsUpTo(Fragments, MaxLen)]

\* str(content)
Str(content) == content.toks

\* len(re.findall(pattern, text, re.IGNORECASE)) for the one pattern of
\* category cat.  The banner reads "[CONTENT WARNING: This content may
\* contain <cats joined>. Proceed with caution.]" on a line of its own: of
\* the six patterns only r'\b(suicide|self-harm|...)\b' matches in it, when
\* "self-harm" is among the names it spells out.
FragmentMatches(cat, frag) ==
    IF frag.kind = "banner"
    THEN IF cat = "self-harm" /\ "self-harm" \in Range(frag.cats) THEN 1 ELSE 0
    ELSE IF cat \in Range(frag.cats) THEN 1 ELSE 0

RECURSIVE CountMatches(_, _)
CountMatches(cat, text) ==
    IF text = <<>> THEN 0
    ELSE FragmentMatches(cat, Head(text)) + CountMatches(cat, Tail(text))

\* The pattern score without its cap at 1.0.
PatternScoreUncapped(cat, text) ==
    CountMatches(cat, text) * PatternWeight

\* pattern_score = min(1.0, len(matches) * 0.2); category_score is the max
\* over the category's patterns (each category has one pattern).
PatternScore(cat, text) ==
    Min(100, CountMatches(cat, text) * PatternWeight)

\* ------------------------------------------------------- analysis results
\* An analysis result; category_scores is a function on the categories
\* scored so far, raised is TRUE when a layer raised instead of returning.
EmptyScores == [c \in {} |-> 0]

NewResult ==
    [category_scores |-> EmptyScores, flagged_categories |-> <<>>,
     needs_modification |-> FALSE, overall_safety_score |-> 100,
     raised |-> FALSE]

SetScore(scores, cat, v) ==
    [c \in DOMAIN scores \cup {cat} |-> IF c = cat THEN v ELSE scores[c]]

GetScore(scores, cat) == IF cat \in DOMAIN scores THEN scores[cat] ELSE 0

\* Lines 162-177: the pattern layer, over harmful_patterns.items() from the
\* i-th key on.
RECURSIVE PatternLayer(_, _, _, _)
PatternLayer(g, text, result, i) ==
    IF i > Len(AllCategories) THEN result
    ELSE LET category == AllCategories[i]
             category_score == PatternScore(category, text)
             scored == [result EXCEPT
                          !.category_scores = SetScore(@, category, category_score)]
             next == IF category_score >= g.threshold
                     THEN [scored EXCEPT
                             !.flagged_categories = Append(@, category),
                             !.needs_modification = TRUE]
                     ELSE scored
         IN  IF category \notin g.categories
             THEN PatternLayer(g, text, result, i + 1)
             ELSE PatternLayer(g, text, next, i + 1)

\* Lines 183-189 (and 195-201): merge the scores a layer returned, over
\* its category_scores.items() from the i-th key on.  A response is a
\* function from the categories it reports to their scores; its keys come
\* in the order of AllCategories, as in the two mock layers.
RECURSIVE MergeLayer(_, _, _, _)
MergeLayer(g, response, result, i) ==
    IF i > Len(AllCategories) THEN result
    ELSE LET category == AllCategories[i]
             score == response[category]
             current_score == GetScore(result.category_scores, category)
             merged == [result EXCEPT
                          !.category_scores =
                              SetScore(@, category, Max(current_score, score))]
             next == IF score >= g.threshold
                        /\ category \notin Range(merged.flagged_categories)
                     THEN [merged EXCEPT
                             !.flagged_categories = Append(@, category),
                             !.needs_modification = TRUE]
                     ELSE merged
         IN  IF category \notin DOMAIN response \/ category \notin g.categories
             THEN MergeLayer(g, response, result, i + 1)
             ELSE MergeLayer(g, response, next, i + 1)

SetMax(S) == CHOOSE x \in S : \A y \in S : y <= x

\* Lines 203-206.
OverallScore(result) ==
    IF DOMAIN result.category_scores # {}
    THEN [result EXCEPT !.overall_safety_score =
            100 - SetMax({result.category_scores[c] : c \in DOMAIN result.category_scores})]
    ELSE result

\* What a call of an optional layer does: it returns category_scores, or it
\* raises (raised = TRUE; an unreachable service, a timeout).
ResponseCats == {"hate", "violence"}
LayerScores == {5, 85}
Raises == [raised |-> TRUE, category_scores |-> EmptyScores]
Responses ==
    {Raises} \cup [raised : {FALSE}, category_scores : [ResponseCats -> LayerScores]]

\* _analyze_text_content.  api and llm are what _check_external_api and
\* _analyze_with_llm do if they are called.  Neither call is wrapped in a
\* try, so an exception leaves the function.
ApiConsulted(g, afterPattern) ==
    g.use_external_api /\ afterPattern.flagged_categories = <<>>

\* The LLM layer consulted whenever it is configured, whatever is flagged.
LlmConsultedAlways(g, afterApi) ==
    g.llm_service /\ ~afterApi.raised

LlmConsulted(g, afterApi) ==
    g.llm_service /\ ~afterApi.raised /\ afterApi.flagged_categories = <<>>

\* _analyze_text_content merging the scores of the external API without
\* flagging any of them (line 187 never true).
AnalyzeTextContentApiUnflagged(g, text, api, llm) ==
    LET afterPattern == PatternLayer(g, text, NewResult, 1)
        afterApi ==
            IF ApiConsulted(g, afterPattern)
            THEN IF api.raised THEN [afterPattern EXCEPT !.raised = TRUE]
                 ELSE MergeLayer([g EXCEPT !.threshold = 101], api.category_scores,
                                 afterPattern, 1)
            ELSE afterPattern
        afterLlm ==
            IF LlmConsulted(g, afterApi)
            THEN IF llm.raised THEN [afterApi EXCEPT !.raised = TRUE]
                 ELSE MergeLayer(g, llm.category_scores, afterApi, 1)
            ELSE afterApi
    IN  IF afterLlm.raised THEN afterLlm ELSE OverallScore(afterLlm)

AnalyzeTextContent(g, text, api, llm) ==
    LET afterPattern == PatternLayer(g, text, NewResult, 1)
        afterApi ==
            IF ApiConsulted(g, afterPattern)
            THEN IF api.raised THEN [afterPattern EXCEPT !.raised = TRUE]
                 ELSE MergeLayer(g, api.category_scores, afterPattern, 1)
            ELSE afterPattern
        afterLlm ==
            IF LlmConsulted(g, afterApi)
            THEN IF llm.raised THEN [afterApi EXCEPT !.raised = TRUE]
                 ELSE MergeLayer(g, llm.category_scores, afterApi, 1)
            ELSE afterApi
    IN  IF afterLlm.raised THEN afterLlm ELSE OverallScore(afterLlm)

\* _analyze_structured_content: every object has __str__, so the text
\* analysis of str(content) is what runs.
AnalyzeStructuredContent(g, content, api, llm) ==
    AnalyzeTextContent(g, Str(content), api, llm)

\* ---------------------------------------------------------------- guardrail
\* BaseGuardrail.__init__: the counters of a new guardrail.
NewMetrics == [invocations |-> 0, blocks |-> 0, modifications |-> 0, passes |-> 0]

\* ContentSafetyGuardrail.__init__; extreme_threshold is
\* config.get("extreme_threshold", 0.9).
NewGuardrail(categories, threshold, extreme_threshold, use_external_api, llm_service) ==
    [name |-> "content_safety", categories |-> categories,
     threshold |-> threshold, extreme_threshold |-> extreme_threshold,
     use_external_api |-> use_external_api, llm_service |-> llm_service,
     metrics |-> NewMetrics]

\* BaseGuardrail.log_event: counts the event in memory and writes a line to
\* the process log; it holds no reference to a GuardrailMonitor.
LogEvent(metrics, event_type) ==
    LET counted == [metrics EXCEPT !.invocations = @ + 1]
    IN  CASE event_type = "block" -> [counted EXCEPT !.blocks = @ + 1]
          [] event_type = "modify" -> [counted EXCEPT !.modifications = @ + 1]
          [] event_type = "pass" -> [counted EXCEPT !.passes = @ + 1]
          [] OTHER -> counted

\* should_block with the extreme threshold compared by > and not >=.
ShouldBlockStrict(g, analysis_result) ==
    \/ \E c \in DOMAIN analysis_result.category_scores :
          analysis_result.category_scores[c] > g.extreme_threshold
    \/ Len(analysis_result.flagged_categories) >= 2

\* ContentSafetyGuardrail.should_block
ShouldBlock(g, analysis_result) ==
    \/ \E c \in DOMAIN analysis_result.category_scores :
          analysis_result.category_scores[c] >= g.extreme_threshold
    \/ Len(analysis_result.flagged_categories) >= 2

\* The warning label of _modify_content.
Banner(flagged_categories) == [kind |-> "banner", cats |-> flagged_categories]

\* _modify_content returning content + warning: the label after the text.
ModifyContentAppended(content, analysis_result) ==
    [is_str |-> TRUE,
     toks |-> content.toks \o <<Banner(analysis_result.flagged_categories)>>]

\* _modify_content: warning + content.  Only called with a str.
ModifyContent(content, analysis_result) ==
    [is_str |-> TRUE,
     toks |-> <<Banner(analysis_result.flagged_categories)>> \o content.toks]

NoReason == [text |-> "none", cats |-> <<>>]
Reason(text, analysis_result) ==
    [text |-> text, cats |-> analysis_result.flagged_categories]

ProcessResult(verdict, content, blocked, modified, passed, reason, analysis, metrics) ==
    [verdict |-> verdict, content |-> content,
     result |-> [blocked |-> blocked, modified |-> modified, passed |-> passed,
                 reason |-> reason, analysis |-> analysis],
     metrics |-> metrics]

\* Lines 107-116: the block branch of process.
BlockOutcome(content, analysis_result, counted) ==
    ProcessResult("block", content, TRUE, FALSE, FALSE,
                  Reason("Content flagged for", analysis_result), analysis_result,
                  LogEvent([counted EXCEPT !.blocks = @ + 1], "block"))

\* Lines 120-130: the modify branch of process, for a str.
ModifyOutcome(content, analysis_result, counted) ==
    ProcessResult("modify", ModifyContent(content, analysis_result),
                  FALSE, TRUE, FALSE,
                  Reason("Content modified for", analysis_result), analysis_result,
                  LogEvent([counted EXCEPT !.modifications = @ + 1], "modify"))

\* The pass branch returning the content with a warning label, as the
\* modify branch does.
PassOutcomeLabelled(content, analysis_result, counted) ==
    ProcessResult("pass", ModifyContent(content, analysis_result),
                  FALSE, FALSE, TRUE, NoReason, analysis_result,
                  LogEvent([counted EXCEPT !.passes = @ + 1], "pass"))

\* Lines 133-140: the pass branch of process.
PassOutcome(content, analysis_result, counted) ==
    ProcessResult("pass", content, FALSE, FALSE, TRUE, NoReason, analysis_result,
                  LogEvent([counted EXCEPT !.passes = @ + 1], "pass"))

\* A call of process that ends in an exception: nothing is returned, and
\* the counters are as the lines run so far left them.
RaisedOutcome(content, analysis_result, counted) ==
    ProcessResult("raised", content, FALSE, FALSE, FALSE, NoReason,
                  analysis_result, counted)

\* ContentSafetyGuardrail.process on guardrail g.  The value holds what the
\* call returns (content, result), its verdict and the counters it leaves.
\* The call raises when a layer raised, and when _modify_content is
\* reached with content that is not a str (warning + content is a
\* TypeError, at line 301, before line 121 counts the modification).
Process(g, content, api, llm) ==
    LET counted == [g.metrics EXCEPT !.invocations = @ + 1]
        analysis_result ==
            IF content.is_str THEN AnalyzeTextContent(g, content.toks, api, llm)
            ELSE AnalyzeStructuredContent(g, content, api, llm)
    IN  IF analysis_result.raised
        THEN RaisedOutcome(content, analysis_result, counted)
        ELSE IF ShouldBlock(g, analysis_result)
        THEN BlockOutcome(content, analysis_result, counted)
        ELSE IF analysis_result.needs_modification
        THEN IF content.is_str
             THEN ModifyOutcome(content, analysis_result, counted)
             ELSE RaisedOutcome(content, analysis_result, counted)
        ELSE PassOutcome(content, analysis_result, counted)

\* -------------------------------------------------------------------- state
VARIABLES
    guardrails,         \* the guardrail instances: configuration and metrics
    call,               \* the last direct call of process and what it returned
    chain,              \* GuardrailChain.process: its locals and its return value
    guardrail_events,   \* the rows of table guardrail_events, in id order
    guardrail_metrics,  \* the rows of table guardrail_metrics, in id order
    today,              \* the calendar day datetime.now() falls on
    proc,               \* each producer's position in GuardrailMonitor.log_event
    tool,               \* LangChainGuardrailTool.run: its locals and its return value
    feedback_call,      \* the last call of record_user_feedback and what it returned
    threads,            \* the threads that share guardrails[1], each inside process
    client              \* what a caller of the monitor passed to it and got back

vars == <<guardrails, call, chain, guardrail_events, guardrail_metrics, today, proc,
          tool, feedback_call, threads, client>>
guardVars == <<guardrails, call, chain, tool, threads>>
monitorVars == <<guardrail_events, guardrail_metrics, today, proc, feedback_call, client>>

Thresholds == {0, 20, DefaultThreshold}
ExtremeThresholds == {40, DefaultExtremeThreshold}
CategoryChoices == {Range(AllCategories), {"violence"}}

\* The configurations a guardrail is constructed with.
GuardrailConfigs ==
    {NewGuardrail(cs, t, e, a, l) :
        cs \in CategoryChoices, t \in Thresholds, e \in ExtremeThresholds,
        a \in BOOLEAN, l \in BOOLEAN}

\* The guardrails of a chain run the pattern layer alone.
ChainConfigs ==
    {NewGuardrail(Range(AllCategories), t, e, FALSE, FALSE) :
        t \in {20, DefaultThreshold}, e \in ExtremeThresholds}

DefaultGuardrail ==
    NewGuardrail(Range(AllCategories), DefaultThreshold, DefaultExtremeThreshold,
                 FALSE, FALSE)

NoContent == [is_str |-> TRUE, toks |-> <<>>]
NoCall == [status |-> "none", guardrail |-> 0, content |-> NoContent]

\* results = {"guardrail_results": []}
NewResults ==
    [guardrail_results |-> <<>>, blocked |-> FALSE,
     blocking_guardrail |-> "", blocking_reason |-> NoReason]

IdleChain ==
    [pc |-> "idle", content |-> NoContent, current_content |-> NoContent,
     processed_content |-> NoContent, i |-> 1, results |-> NewResults,
     invoked |-> <<>>]

\* No thread is inside process.  calls counts the calls entered, expected is
\* the metrics the same calls leave when run one after another.
IdleThread == [pc |-> "idle", writes |-> <<>>, reg |-> 0]
IdleThreads ==
    [run |-> [t \in 1..NThreads |-> IdleThread], calls |-> 0, expected |-> NewMetrics]

\* ---------------------------------------------------------------- monitor
\* The guardrail names and event types producers log: the three types
\* log_event documents, and "error", a type outside them.  NULL is the SQL
\* null.
GuardrailNames == {"content_safety", "fact_check"}
DocumentedEventTypes == {"block", "modify", "pass"}
EventTypes == DocumentedEventTypes \cup {"error"}
Feedbacks == {"false_positive", "false_negative", "helpful"}
NULL == "NULL"

\* A producer that is not inside log_event.
NoProc == [pc |-> "idle", guardrail_name |-> NULL, event_type |-> NULL,
           event_id |-> 0, today |-> 0, result |-> 0]

\* No call of record_user_feedback made yet; n counts the calls.
NoFeedbackCall == [n |-> 0, event_id |-> 0, feedback |-> NULL, returned |-> NULL]

\* What LangChainGuardrailTool.run returns: the error structure (is_error,
\* with the guardrail and reason its "error" text spells out), or content.
ToolError(blocking_guardrail, blocking_reason) ==
    [is_error |-> TRUE, blocking_guardrail |-> blocking_guardrail,
     blocking_reason |-> blocking_reason, content |-> NoContent]

ToolOutput(content) ==
    [is_error |-> FALSE, blocking_guardrail |-> "", blocking_reason |-> NoReason,
     content |-> content]

\* No call of LangChainGuardrailTool.run made yet.
IdleTool == [pc |-> "idle", original_output |-> NoContent, returned |-> ToolOutput(NoContent)]

\* ------------------------------------------------------------ event details
\* A Python value given as details: t is its type, s the text of a str, n
\* the value of an int or bool, or of a float in hundredths, items the
\* members of a list, tuple or dict (key is PyNone outside a dict).
PyValue(t, str, n, items) == [t |-> t, s |-> str, n |-> n, items |-> items]
PyNone == PyValue("none", "", 0, <<>>)
PyBool(b) == PyValue("bool", "", IF b THEN 1 ELSE 0, <<>>)
PyInt(n) == PyValue("int", "", n, <<>>)
PyFloat(n) == PyValue("float", "", n, <<>>)
PyStr(str) == PyValue("str", str, 0, <<>>)
PyList(values) ==
    PyValue("list", "", 0, [k \in 1..Len(values) |-> [key |-> PyNone, val |-> values[k]]])
PyTuple(values) ==
    PyValue("tuple", "", 0, [k \in 1..Len(values) |-> [key |-> PyNone, val |-> values[k]]])
PyDict(members) == PyValue("dict", "", 0, members)
Member(key, val) == [key |-> key, val |-> val]

\* A token of JSON text.
Token(tok, str, n) == [tok |-> tok, s |-> str, n |-> n]
Punct(tok) == Token(tok, "", 0)

\* A float written with one decimal ("%.1f"), in hundredths.
FormatFloatOneDecimal(n) == Token("float", "", (n \div 10) * 10)

\* float.__repr__, as json.dumps writes a float: the shortest text that
\* reads back as the same float.
FormatFloat(n) == Token("float", "", n)

\* json.dumps on a dict key: a str is written as it is, an int as the
\* string of its digits.
DumpKey(key) ==
    IF key.t = "int" THEN Token("string", ToString(key.n), 0)
    ELSE Token("string", key.s, 0)

\* json.dumps(value): the tokens of the JSON text.  A tuple is written as
\* an array, like a list.
RECURSIVE JsonDumps(_)
RECURSIVE DumpItems(_, _, _)
DumpItems(items, k, keyed) ==
    IF k > Len(items) THEN <<>>
    ELSE (IF k > 1 THEN <<Punct(",")>> ELSE <<>>)
         \o (IF keyed THEN <<DumpKey(items[k].key), Punct(":")>> ELSE <<>>)
         \o JsonDumps(items[k].val)
         \o DumpItems(items, k + 1, keyed)

JsonDumps(value) ==
    CASE value.t = "none" -> <<Punct("null")>>
      [] value.t = "bool" -> <<Punct(IF value.n = 1 THEN "true" ELSE "false")>>
      [] value.t = "int" -> <<Token("int", "", value.n)>>
      [] value.t = "float" -> <<FormatFloat(value.n)>>
      [] value.t = "str" -> <<Token("string", value.s, 0)>>
      [] value.t \in {"list", "tuple"} ->
           <<Punct("[")>> \o DumpItems(value.items, 1, FALSE) \o <<Punct("]")>>
      [] value.t = "dict" ->
           <<Punct("{")>> \o DumpItems(value.items, 1, TRUE) \o <<Punct("}")>>

\* json.loads(text): the value parsed from the head of the tokens, and the
\* tokens after it.  An array is read as a list, an object as a dict whose
\* keys are str.
RECURSIVE ParseValue(_)
RECURSIVE ParseItems(_, _, _)
ParseItems(toks, acc, keyed) ==
    IF Head(toks).tok \in {"]", "}"}
    THEN [value |-> PyValue(IF keyed THEN "dict" ELSE "list", "", 0, acc),
          rest |-> Tail(toks)]
    ELSE LET start == IF Head(toks).tok = "," THEN Tail(toks) ELSE toks
             key == IF keyed THEN PyStr(Head(start).s) ELSE PyNone
             parsed == ParseValue(IF keyed THEN Tail(Tail(start)) ELSE start)
         IN  ParseItems(parsed.rest, Append(acc, Member(key, parsed.value)), keyed)

ParseValue(toks) ==
    LET h == Head(toks)
    IN  CASE h.tok = "null" -> [value |-> PyNone, rest |-> Tail(toks)]
          [] h.tok = "true" -> [value |-> PyBool(TRUE), rest |-> Tail(toks)]
          [] h.tok = "false" -> [value |-> PyBool(FALSE), rest |-> Tail(toks)]
          [] h.tok = "int" -> [value |-> PyInt(h.n), rest |-> Tail(toks)]
          [] h.tok = "float" -> [value |-> PyFloat(h.n), rest |-> Tail(toks)]
          [] h.tok = "string" -> [value |-> PyStr(h.s), rest |-> Tail(toks)]
          [] h.tok = "[" -> ParseItems(Tail(toks), <<>>, FALSE)
          [] h.tok = "{" -> ParseItems(Tail(toks), <<>>, TRUE)

JsonLoads(text) == ParseValue(text).value

\* The details of an event nobody describes: {}.
NoDetails == PyDict(<<>>)

\* identify_improvement_opportunities before its loops: every list empty.
\* A list is kept as the set of its entries; no guardrail is entered twice.
NoOpportunities ==
    [high_false_positive_guardrails |-> {}, low_efficacy_guardrails |-> {},
     frequently_triggered_guardrails |-> {}, rarely_triggered_guardrails |-> {},
     recommendations |-> {}]

\* A caller that has called nothing yet: logged holds the details argument
\* of each log_event call it made, with the id the call returned;
\* recent_events is what its last get_recent_events call returned, fetch the
\* arguments of that call and the number of events there were; opportunities
\* is what its last identify_improvement_opportunities call returned.
NoClient ==
    [logged |-> <<>>,
     fetched |-> FALSE, recent_events |-> <<>>,
     fetch |-> [limit |-> 0, guardrail_name |-> NULL, event_type |-> NULL, events |-> 0],
     identified |-> FALSE, opportunities |-> NoOpportunities]

\* _initialize_database on a new database file: both tables are empty.
InitMonitor ==
    /\ guardrail_events = <<>>
    /\ guardrail_metrics = <<>>
    /\ today = 1
    /\ proc = [p \in 1..NProc |-> NoProc]
    /\ feedback_call = NoFeedbackCall
    /\ client = NoClient

\* Lines 96-118: details is converted to JSON text and the event inserted;
\* the id is the next AUTOINCREMENT value and the timestamp is
\* datetime.now() (its date is kept).
InsertEvent(events, now, guardrail_name, event_type, details) ==
    Append(events,
           [id |-> Len(events) + 1, date |-> now, guardrail_name |-> guardrail_name,
            event_type |-> event_type, details |-> JsonDumps(details),
            user_feedback |-> NULL])

\* Lines 133-137: the ids SELECT id FROM guardrail_metrics WHERE date = ? AND
\* guardrail_name = ? yields; fetchone() returns one of them, or None (0).
SelectMetricIds(metrics, date, guardrail_name) ==
    {metrics[k].id : k \in {j \in 1..Len(metrics) :
                               /\ metrics[j].date = date
                               /\ metrics[j].guardrail_name = guardrail_name}}

FetchOne(ids) == IF ids = {} THEN {0} ELSE ids

\* The UPDATE of the "modify" branch written with the column of the
\* "block" branch.
UpdateMetricRowWrongColumn(row, event_type) ==
    CASE event_type = "block" ->
           [row EXCEPT !.invocations = @ + 1, !.blocks = @ + 1]
      [] event_type = "modify" ->
           [row EXCEPT !.invocations = @ + 1, !.blocks = @ + 1]
      [] event_type = "pass" ->
           [row EXCEPT !.invocations = @ + 1, !.passes = @ + 1]
      [] OTHER -> row

\* Lines 142-156: UPDATE guardrail_metrics SET ... WHERE id = ?
UpdateMetricRow(row, event_type) ==
    CASE event_type = "block" ->
           [row EXCEPT !.invocations = @ + 1, !.blocks = @ + 1]
      [] event_type = "modify" ->
           [row EXCEPT !.invocations = @ + 1, !.modifications = @ + 1]
      [] event_type = "pass" ->
           [row EXCEPT !.invocations = @ + 1, !.passes = @ + 1]
      [] OTHER -> row

\* The INSERT as INSERT OR REPLACE under a UNIQUE (date, guardrail_name):
\* the new row takes the place of the rows of its day and guardrail.
InsertOrReplaceMetricRow(metrics, date, guardrail_name, event_type) ==
    Append(SelectSeq(metrics, LAMBDA r : ~(r.date = date /\ r.guardrail_name = guardrail_name)),
           [id |-> Len(metrics) + 1, date |-> date, guardrail_name |-> guardrail_name,
            invocations |-> 1,
            blocks |-> IF event_type = "block" THEN 1 ELSE 0,
            modifications |-> IF event_type = "modify" THEN 1 ELSE 0,
            passes |-> IF event_type = "pass" THEN 1 ELSE 0,
            false_positives |-> 0, false_negatives |-> 0])

\* Lines 158-170: INSERT INTO guardrail_metrics; the table has no UNIQUE
\* constraint on (date, guardrail_name).
InsertMetricRow(metrics, date, guardrail_name, event_type) ==
    Append(metrics,
           [id |-> Len(metrics) + 1, date |-> date, guardrail_name |-> guardrail_name,
            invocations |-> 1,
            blocks |-> IF event_type = "block" THEN 1 ELSE 0,
            modifications |-> IF event_type = "modify" THEN 1 ELSE 0,
            passes |-> IF event_type = "pass" THEN 1 ELSE 0,
            false_positives |-> 0, false_negatives |-> 0])

\* Lines 139-172: the write of _update_daily_metrics, given the id the
\* SELECT returned (0: no row).
WriteDailyMetrics(metrics, date, guardrail_name, event_type, result) ==
    IF result # 0
    THEN [k \in 1..Len(metrics) |->
            IF metrics[k].id = result
            THEN UpdateMetricRow(metrics[k], event_type) ELSE metrics[k]]
    ELSE InsertMetricRow(metrics, date, guardrail_name, event_type)

\* Lines 186-213: record_user_feedback, one transaction.
SetFeedback(events, event_id, feedback) ==
    [k \in 1..Len(events) |->
       IF events[k].id = event_id
       THEN [events[k] EXCEPT !.user_feedback = feedback] ELSE events[k]]

CountFeedback(metrics, events, event_id, feedback) ==
    IF feedback \in {"false_positive", "false_negative"} /\ event_id \in 1..Len(events)
    THEN [k \in 1..Len(metrics) |->
            IF /\ metrics[k].date = events[event_id].date
               /\ metrics[k].guardrail_name = events[event_id].guardrail_name
            THEN IF feedback = "false_positive"
                 THEN [metrics[k] EXCEPT !.false_positives = @ + 1]
                 ELSE [metrics[k] EXCEPT !.false_negatives = @ + 1]
            ELSE metrics[k]]
    ELSE metrics

\* ------------------------------------------------- one guardrail, called directly
InitGuardrail ==
    /\ guardrails \in [1..NGuardrails -> GuardrailConfigs \cup {DefaultGuardrail}]
    /\ \A i \in 2..NGuardrails : guardrails[i] = DefaultGuardrail
    /\ call = NoCall
    /\ chain = IdleChain
    /\ tool = IdleTool
    /\ threads = IdleThreads
    /\ InitMonitor

\* What the layers answer when consulted; a layer that is not consulted is
\* not called.
ApiAnswers(g, text) ==
    IF ApiConsulted(g, PatternLayer(g, text, NewResult, 1)) THEN Responses ELSE {Raises}

LlmAnswers(g, text, api) ==
    IF g.llm_service /\ ~(ApiConsulted(g, PatternLayer(g, text, NewResult, 1)) /\ api.raised)
    THEN Responses ELSE {Raises}

\* A caller runs guardrails[1].process(content).
ProcessCall ==
    /\ guardrails[1].metrics.invocations < MaxInvocations
    /\ \E content \in Contents :
         \E api \in ApiAnswers(guardrails[1], Str(content)) :
           \E llm \in LlmAnswers(guardrails[1], Str(content), api) :
             \E out \in {Process(guardrails[1], content, api, llm)} :
                 /\ guardrails' = [guardrails EXCEPT ![1].metrics = out.metrics]
                 /\ call' = [status |-> IF out.verdict = "raised" THEN "raised" ELSE "returned",
                             guardrail |-> 1, content |-> content, out |-> out,
                             api |-> api, llm |-> llm]
    /\ UNCHANGED <<chain, tool, threads, monitorVars>>

NextGuardrail == ProcessCall

\* ------------------------------------------------ the pattern layer on long texts
\* Texts long enough for a pattern to match more than five times.
LongContents == [is_str : {TRUE}, toks : SeqsUpTo(Fragments, MaxMatches)]

\* Guardrails that run the pattern layer alone.
InitPattern ==
    /\ guardrails \in [1..NGuardrails -> ChainConfigs \cup {DefaultGuardrail}]
    /\ \A i \in 2..NGuardrails : guardrails[i] = DefaultGuardrail
    /\ call = NoCall
    /\ chain = IdleChain
    /\ tool = IdleTool
    /\ threads = IdleThreads
    /\ InitMonitor

\* A caller runs guardrails[1].process(content) on a long text; no optional
\* layer is configured, so none is called.
ProcessLongCall ==
    /\ guardrails[1].metrics.invocations < MaxInvocations
    /\ \E content \in LongContents :
         \E out \in {Process(guardrails[1], content, Raises, Raises)} :
             /\ guardrails' = [guardrails EXCEPT ![1].metrics = out.metrics]
             /\ call' = [status |-> IF out.verdict = "raised" THEN "raised" ELSE "returned",
                         guardrail |-> 1, content |-> content, out |-> out,
                         api |-> Raises, llm |-> Raises]
    /\ UNCHANGED <<chain, tool, threads, monitorVars>>

NextPattern == ProcessLongCall

SpecPattern == InitPattern /\ [][NextPattern]_vars

SpecGuardrail == InitGuardrail /\ [][NextGuardrail]_vars

\* ------------------------------------------------------------------- chain
\* GuardrailChain.__init__: the chain holds the guardrails in index order.
InitChain ==
    /\ guardrails \in [1..NGuardrails -> ChainConfigs]
    /\ call = NoCall
    /\ chain = IdleChain
    /\ tool = IdleTool
    /\ threads = IdleThreads
    /\ InitMonitor

\* Lines 125-126: GuardrailChain.process(content) is entered.
ChainProcess ==
    /\ chain.pc # "running"
    /\ \A i \in 1..NGuardrails : guardrails[i].metrics.invocations < MaxInvocations
    /\ \E content \in Contents :
         chain' = [IdleChain EXCEPT !.pc = "running", !.content = content,
                                    !.current_content = content]
    /\ UNCHANGED <<guardrails, call, tool, threads, monitorVars>>

\* Lines 137-141: the chain-level fields set when a guardrail blocks.
Blocked(results, guardrail, result) ==
    [results EXCEPT !.blocked = TRUE,
                    !.blocking_guardrail = guardrail.name,
                    !.blocking_reason = result.reason]

\* The loop without its break: a block is recorded and the loop goes on.
ChainIterationNoBreak(c, guardrail, out) ==
    LET appended == [c.results EXCEPT
                       !.guardrail_results =
                           Append(@, [guardrail |-> guardrail.name, result |-> out.result])]
        invoked == Append(c.invoked,
                          [index |-> c.i, input |-> c.current_content,
                           output |-> out.content, verdict |-> out.verdict])
    IN  IF out.verdict = "raised"
        THEN [c EXCEPT !.pc = "raised", !.invoked = invoked]
        ELSE [c EXCEPT !.pc = IF c.i = NGuardrails THEN "returned" ELSE "running",
                       !.processed_content = out.content,
                       !.current_content = out.content,
                       !.i = c.i + 1,
                       !.results = IF out.result.blocked
                                   THEN Blocked(appended, guardrail, out.result)
                                   ELSE appended,
                       !.invoked = invoked]

\* The loop without line 144: every guardrail is given the original content.
ChainIterationOriginal(c, guardrail, out) ==
    LET appended == [c.results EXCEPT
                       !.guardrail_results =
                           Append(@, [guardrail |-> guardrail.name, result |-> out.result])]
        invoked == Append(c.invoked,
                          [index |-> c.i, input |-> c.current_content,
                           output |-> out.content, verdict |-> out.verdict])
    IN  IF out.verdict = "raised"
        THEN [c EXCEPT !.pc = "raised", !.invoked = invoked]
        ELSE IF out.result.blocked
        THEN [c EXCEPT !.pc = "returned", !.processed_content = out.content,
                       !.results = Blocked(appended, guardrail, out.result),
                       !.invoked = invoked]
        ELSE [c EXCEPT !.pc = IF c.i = NGuardrails THEN "returned" ELSE "running",
                       !.processed_content = out.content,
                       !.i = c.i + 1,
                       !.results = appended,
                       !.invoked = invoked]

\* Lines 128-146, one iteration of the loop for guardrail number c.i on the
\* locals c of the chain, given what guardrail.process did (out): the
\* locals after the iteration, pc "returned" once the function returns
\* current_content, "raised" if process raised.
ChainIteration(c, guardrail, out) ==
    LET appended == [c.results EXCEPT
                       !.guardrail_results =
                           Append(@, [guardrail |-> guardrail.name, result |-> out.result])]
        invoked == Append(c.invoked,
                          [index |-> c.i, input |-> c.current_content,
                           output |-> out.content, verdict |-> out.verdict])
    IN  IF out.verdict = "raised"
        THEN [c EXCEPT !.pc = "raised", !.invoked = invoked]
        ELSE IF out.result.blocked
        THEN [c EXCEPT !.pc = "returned", !.processed_content = out.content,
                       !.results = Blocked(appended, guardrail, out.result),
                       !.invoked = invoked]
        ELSE [c EXCEPT !.pc = IF c.i = NGuardrails THEN "returned" ELSE "running",
                       !.processed_content = out.content,
                       !.current_content = out.content,
                       !.i = c.i + 1,
                       !.results = appended,
                       !.invoked = invoked]

\* The loop body runs for the next guardrail of the chain.
ChainStep ==
    /\ chain.pc = "running"
    /\ \E api \in ApiAnswers(guardrails[chain.i], Str(chain.current_content)) :
         \E llm \in LlmAnswers(guardrails[chain.i], Str(chain.current_content), api) :
           \E out \in {Process(guardrails[chain.i], chain.current_content, api, llm)} :
             /\ guardrails' = [guardrails EXCEPT ![chain.i].metrics = out.metrics]
             /\ chain' = ChainIteration(chain, guardrails[chain.i], out)
    /\ UNCHANGED <<call, tool, threads, monitorVars>>

NextChain == ChainProcess \/ ChainStep

\* ------------------------------------------------------ LangChainGuardrailTool
\* run returning guarded_output without looking at results["blocked"].
RunReturnUnchecked(guarded_output, results) ==
    ToolOutput(guarded_output)

\* Lines 183-190: what run returns, given what the chain returned.
RunReturn(guarded_output, results) ==
    IF results.blocked
    THEN ToolError(results.blocking_guardrail, results.blocking_reason)
    ELSE ToolOutput(guarded_output)

\* Lines 177-180: run is called, the wrapped tool returns original_output
\* and the chain is entered with it.
ToolRun ==
    /\ tool.pc # "guarding"
    /\ \A i \in 1..NGuardrails : guardrails[i].metrics.invocations < MaxInvocations
    /\ \E original_output \in Contents :
         /\ tool' = [IdleTool EXCEPT !.pc = "guarding",
                                     !.original_output = original_output]
         /\ chain' = [IdleChain EXCEPT !.pc = "running", !.content = original_output,
                                       !.current_content = original_output]
    /\ UNCHANGED <<guardrails, call, threads, monitorVars>>

\* The chain called by run processes its next guardrail; when the chain
\* returns, run returns (lines 183-190), and when it raises, run raises.
ToolStep ==
    /\ tool.pc = "guarding"
    /\ chain.pc = "running"
    /\ \E api \in ApiAnswers(guardrails[chain.i], Str(chain.current_content)) :
         \E llm \in LlmAnswers(guardrails[chain.i], Str(chain.current_content), api) :
           \E out \in {Process(guardrails[chain.i], chain.current_content, api, llm)} :
             \E c \in {ChainIteration(chain, guardrails[chain.i], out)} :
               /\ guardrails' = [guardrails EXCEPT ![chain.i].metrics = out.metrics]
               /\ chain' = c
               /\ tool' = CASE c.pc = "returned" ->
                                  [tool EXCEPT !.pc = "returned",
                                               !.returned = RunReturn(c.current_content, c.results)]
                             [] c.pc = "raised" -> [tool EXCEPT !.pc = "raised"]
                             [] OTHER -> tool
    /\ UNCHANGED <<call, threads, monitorVars>>

NextTool == ToolRun \/ ToolStep

SpecTool == InitChain /\ [][NextTool]_vars

SpecChain == InitChain /\ [][NextChain]_vars

\* ----------------------------------------------------------------- monitor
\* ------------------------------------------- one guardrail shared by threads
\* The counters a call of process increments, in program order: line 96,
\* the verdict's counter (line 107, 121 or 133), then log_event's lines 75
\* and 77-81.  A call that raises has run line 96 alone.
CounterWrites(verdict) ==
    CASE verdict = "block" -> <<"invocations", "blocks", "invocations", "blocks">>
      [] verdict = "modify" ->
           <<"invocations", "modifications", "invocations", "modifications">>
      [] verdict = "pass" -> <<"invocations", "passes", "invocations", "passes">>
      [] OTHER -> <<"invocations">>

InitThreads ==
    /\ guardrails \in [1..NGuardrails -> ChainConfigs \cup {DefaultGuardrail}]
    /\ \A i \in 2..NGuardrails : guardrails[i] = DefaultGuardrail
    /\ call = NoCall
    /\ chain = IdleChain
    /\ tool = IdleTool
    /\ threads = IdleThreads
    /\ InitMonitor

\* Thread t enters guardrails[1].process(content).  The analysis reads the
\* configuration only, so the verdict is the one of a call made alone.
ThreadCall(t) ==
    /\ threads.run[t].pc = "idle"
    /\ threads.calls < MaxThreadCalls
    /\ \E content \in Contents :
         \E out \in {Process([guardrails[1] EXCEPT !.metrics = threads.expected],
                             content, Raises, Raises)} :
           threads' = [run |-> [threads.run EXCEPT ![t] =
                                  [pc |-> "load", writes |-> CounterWrites(out.verdict),
                                   reg |-> 0]],
                       calls |-> threads.calls + 1,
                       expected |-> out.metrics]
    /\ UNCHANGED <<guardrails, call, chain, tool, monitorVars>>

\* self.metrics[k] += 1 is a read, an addition and a write, under no lock:
\* thread t reads the counter.
ThreadLoad(t) ==
    /\ threads.run[t].pc = "load"
    /\ threads' = [threads EXCEPT
                     !.run[t].pc = "store",
                     !.run[t].reg = guardrails[1].metrics[Head(threads.run[t].writes)]]
    /\ UNCHANGED <<guardrails, call, chain, tool, monitorVars>>

\* Thread t writes the counter it read, plus one; after the last counter
\* the call returns.
ThreadStore(t) ==
    /\ threads.run[t].pc = "store"
    /\ guardrails' = [guardrails EXCEPT
                        ![1].metrics[Head(threads.run[t].writes)] = threads.run[t].reg + 1]
    /\ threads' = [threads EXCEPT
                     !.run[t].writes = Tail(@),
                     !.run[t].reg = 0,
                     !.run[t].pc = IF Tail(threads.run[t].writes) = <<>>
                                   THEN "idle" ELSE "load"]
    /\ UNCHANGED <<call, chain, tool, monitorVars>>

NextThreads ==
    \/ \E t \in 1..NThreads : ThreadCall(t)
    \/ \E t \in 1..NThreads : ThreadLoad(t)
    \/ \E t \in 1..NThreads : ThreadStore(t)

SpecThreads == InitThreads /\ [][NextThreads]_vars

RECURSIVE SumOver(_, _)
SumOver(rows, field) ==
    IF rows = <<>> THEN 0 ELSE Head(rows)[field] + SumOver(Tail(rows), field)

\* A rate of a metrics report: the float num / den.  A per-guardrail rate
\* that get_metrics never assigned is absent from its dictionary.
Rate(num, den) == [present |-> TRUE, num |-> num, den |-> den]
ZeroRate == Rate(0, 1)
AbsentRate == [present |-> FALSE, num |-> 0, den |-> 1]
RateEq(r, q) == r.present /\ q.present /\ r.num * q.den = q.num * r.den

\* Lines 239-255: the rows get_metrics selects; a filter that is None
\* (NULL, or 0 for a date) is not applied.
SelectMetrics(metrics, guardrail_name, start_date, end_date) ==
    SelectSeq(metrics, LAMBDA r :
        /\ guardrail_name = NULL \/ r.guardrail_name = guardrail_name
        /\ start_date = 0 \/ r.date >= start_date
        /\ end_date = 0 \/ r.date <= end_date)

\* Lines 278-284 (297-302, 315-320): the six counters summed over rows.
Totals(rows) ==
    [invocations |-> SumOver(rows, "invocations"),
     blocks |-> SumOver(rows, "blocks"),
     modifications |-> SumOver(rows, "modifications"),
     passes |-> SumOver(rows, "passes"),
     false_positives |-> SumOver(rows, "false_positives"),
     false_negatives |-> SumOver(rows, "false_negatives")]

\* Lines 333-341: the entry of one guardrail, with the rates it is given.
GuardrailEntry(t) ==
    [invocations |-> t.invocations, blocks |-> t.blocks,
     modifications |-> t.modifications, passes |-> t.passes,
     false_positives |-> t.false_positives, false_negatives |-> t.false_negatives,
     block_rate |-> IF t.invocations > 0
                    THEN Rate(t.blocks, t.invocations) ELSE AbsentRate,
     modification_rate |-> IF t.invocations > 0
                           THEN Rate(t.modifications, t.invocations) ELSE AbsentRate,
     pass_rate |-> IF t.invocations > 0
                   THEN Rate(t.passes, t.invocations) ELSE AbsentRate,
     false_positive_rate |-> IF t.invocations > 0 /\ t.blocks + t.modifications > 0
                             THEN Rate(t.false_positives, t.blocks + t.modifications)
                             ELSE AbsentRate]

\* GuardrailMonitor.get_metrics
GetMetrics(metrics, guardrail_name, start_date, end_date) ==
    LET rows == SelectMetrics(metrics, guardrail_name, start_date, end_date)
        t == Totals(rows)
    IN  [total_invocations |-> t.invocations,
         total_blocks |-> t.blocks,
         total_modifications |-> t.modifications,
         total_passes |-> t.passes,
         total_false_positives |-> t.false_positives,
         total_false_negatives |-> t.false_negatives,
         block_rate |-> IF t.invocations > 0
                        THEN Rate(t.blocks, t.invocations) ELSE ZeroRate,
         modification_rate |-> IF t.invocations > 0
                               THEN Rate(t.modifications, t.invocations) ELSE ZeroRate,
         pass_rate |-> IF t.invocations > 0
                       THEN Rate(t.passes, t.invocations) ELSE ZeroRate,
         false_positive_rate |-> IF t.invocations > 0 /\ t.blocks + t.modifications > 0
                                 THEN Rate(t.false_positives, t.blocks + t.modifications)
                                 ELSE ZeroRate,
         by_guardrail |->
             [g \in {rows[k].guardrail_name : k \in 1..Len(rows)} |->
                GuardrailEntry(Totals(SelectSeq(rows, LAMBDA r : r.guardrail_name = g)))],
         by_date |->
             [d \in {rows[k].date : k \in 1..Len(rows)} |->
                Totals(SelectSeq(rows, LAMBDA r : r.date = d))]]

\* The clock passes midnight.
Tick ==
    /\ today < MaxDay
    /\ today' = today + 1
    /\ UNCHANGED <<guardrail_events, guardrail_metrics, proc, feedback_call, client, guardVars>>

\* record_user_feedback(event_id, feedback), by a reviewer: the two UPDATEs
\* in one transaction; the function has no return statement and returns
\* None whether or not a row had the id.
RecordUserFeedback ==
    /\ feedback_call.n < MaxFeedback
    /\ \E event_id \in 1..(Len(guardrail_events) + 1), feedback \in Feedbacks :
         /\ guardrail_events' = SetFeedback(guardrail_events, event_id, feedback)
         /\ guardrail_metrics' =
                CountFeedback(guardrail_metrics, guardrail_events, event_id, feedback)
         /\ feedback_call' = [n |-> feedback_call.n + 1, event_id |-> event_id,
                              feedback |-> feedback, returned |-> "None"]
    /\ UNCHANGED <<today, proc, client, guardVars>>

\* Producer p enters log_event: lines 93-119, the event is inserted and
\* committed, and the connection closed.
LogEventInsert(p) ==
    /\ proc[p].pc = "idle"
    /\ Len(guardrail_events) < MaxEvents
    /\ \E guardrail_name \in GuardrailNames, event_type \in DocumentedEventTypes :
         /\ guardrail_events' =
                InsertEvent(guardrail_events, today, guardrail_name, event_type, NoDetails)
         /\ proc' = [proc EXCEPT ![p] =
                [pc |-> "update", guardrail_name |-> guardrail_name,
                 event_type |-> event_type, event_id |-> Len(guardrail_events) + 1,
                 today |-> 0, result |-> 0]]
    /\ UNCHANGED <<guardrail_metrics, today, feedback_call, client, guardVars>>

\* Lines 128-137: _update_daily_metrics reads the date and runs its SELECT.
UpdateSelect(p) ==
    /\ proc[p].pc = "update"
    /\ \E result \in FetchOne(SelectMetricIds(guardrail_metrics, today,
                                               proc[p].guardrail_name)) :
         proc' = [proc EXCEPT ![p].pc = "write", ![p].today = today,
                              ![p].result = result]
    /\ UNCHANGED <<guardrail_events, guardrail_metrics, today, feedback_call, client, guardVars>>

\* Lines 139-173: the UPDATE or INSERT, committed; log_event returns.
UpdateWrite(p) ==
    /\ proc[p].pc = "write"
    /\ guardrail_metrics' =
           WriteDailyMetrics(guardrail_metrics, proc[p].today, proc[p].guardrail_name,
                             proc[p].event_type, proc[p].result)
    /\ proc' = [proc EXCEPT ![p] = NoProc]
    /\ UNCHANGED <<guardrail_events, today, feedback_call, client, guardVars>>

InitMonitorOnly ==
    /\ guardrails = [i \in 1..NGuardrails |-> DefaultGuardrail]
    /\ call = NoCall
    /\ chain = IdleChain
    /\ tool = IdleTool
    /\ threads = IdleThreads
    /\ InitMonitor

NextMonitor ==
    \/ \E p \in 1..NProc : LogEventInsert(p)
    \/ \E p \in 1..NProc : UpdateSelect(p)
    \/ \E p \in 1..NProc : UpdateWrite(p)
    \/ Tick

SpecMonitor == InitMonitorOnly /\ [][NextMonitor]_vars

\* log_event called by one producer at a time: lines 93-124 and 128-173 run
\* to the end before anything else touches the database.  The clock is read
\* twice, once for the event's timestamp and once in _update_daily_metrics,
\* and midnight can fall between the two.
LogEventCall ==
    /\ Len(guardrail_events) < MaxSeqEvents
    /\ \E guardrail_name \in GuardrailNames, event_type \in EventTypes :
         \E date \in {today, Min(today + 1, MaxDay)} :
           \E result \in FetchOne(SelectMetricIds(guardrail_metrics, date, guardrail_name)) :
             /\ guardrail_events' =
                    InsertEvent(guardrail_events, today, guardrail_name, event_type, NoDetails)
             /\ guardrail_metrics' =
                    WriteDailyMetrics(guardrail_metrics, date, guardrail_name,
                                      event_type, result)
             /\ today' = date
    /\ UNCHANGED <<proc, feedback_call, client, guardVars>>

NextMonitorSeq == LogEventCall \/ Tick

SpecMonitorSeq == InitMonitorOnly /\ [][NextMonitorSeq]_vars

\* Reviewers record feedback while producers log events concurrently.
NextFeedback ==
    \/ \E p \in 1..NProc : LogEventInsert(p)
    \/ \E p \in 1..NProc : UpdateSelect(p)
    \/ \E p \in 1..NProc : UpdateWrite(p)
    \/ RecordUserFeedback

SpecFeedback == InitMonitorOnly /\ [][NextFeedback]_vars

\* ------------------------------------------------------- reading the events
DefaultLimit == 100

\* get_recent_events(limit, guardrail_name, event_type): the rows that pass
\* the filters given (None, NULL here, is no filter), latest first, at most
\* limit of them, the details of each parsed from its JSON text.
GetRecentEvents(events, limit, guardrail_name, event_type) ==
    LET rows == SelectSeq(events, LAMBDA e :
                    /\ guardrail_name = NULL \/ e.guardrail_name = guardrail_name
                    /\ event_type = NULL \/ e.event_type = event_type)
    IN  [k \in 1..Min(limit, Len(rows)) |->
           LET row_dict == rows[Len(rows) + 1 - k]
           IN  IF row_dict.details # <<>>
               THEN [row_dict EXCEPT !.details = JsonLoads(row_dict.details)]
               ELSE row_dict]

\* The details a caller passes: the scores and flags of an analysis, and
\* Python values JSON has no notation for (a tuple, a key that is an int).
Scores == PyDict(<<Member(PyStr("hate"), PyFloat(95))>>)
Flagged == PyList(<<PyStr("hate")>>)
DetailsArgs ==
    {NoDetails,
     PyDict(<<Member(PyStr("flagged_categories"), Flagged),
              Member(PyStr("category_scores"), Scores)>>),
     PyDict(<<Member(PyStr("flagged_categories"), PyList(<<>>)),
              Member(PyStr("needs_modification"), PyBool(FALSE))>>),
     PyDict(<<Member(PyStr("scores"), PyList(<<PyNone, PyBool(TRUE), PyInt(1)>>))>>),
     PyList(<<Scores, PyFloat(95)>>),
     PyDict(<<Member(PyStr("categories"), PyTuple(<<PyStr("hate")>>))>>),
     PyDict(<<Member(PyInt(1), PyStr("hate"))>>)}

MaxLogged == 2     \* log_event calls a caller of SpecDetails makes

\* log_event(guardrail_name, event_type, details) by a caller that keeps the
\* id returned: the whole call, lines 93-124.
ClientLogEvent ==
    /\ Len(client.logged) < MaxLogged
    /\ \E guardrail_name \in GuardrailNames, details \in DetailsArgs :
         \E result \in FetchOne(SelectMetricIds(guardrail_metrics, today, guardrail_name)) :
           /\ guardrail_events' =
                  InsertEvent(guardrail_events, today, guardrail_name, "block", details)
           /\ guardrail_metrics' =
                  WriteDailyMetrics(guardrail_metrics, today, guardrail_name, "block", result)
           /\ client' = [client EXCEPT !.logged =
                  Append(@, [event_id |-> Len(guardrail_events) + 1, details |-> details])]
    /\ UNCHANGED <<today, proc, feedback_call, guardVars>>

\* get_recent_events called by the same caller.
ClientGetRecentEvents ==
    /\ \E limit \in {1, DefaultLimit}, guardrail_name \in GuardrailNames \cup {NULL} :
         client' = [client EXCEPT
             !.fetched = TRUE,
             !.recent_events = GetRecentEvents(guardrail_events, limit, guardrail_name, NULL),
             !.fetch = [limit |-> limit, guardrail_name |-> guardrail_name,
                        event_type |-> NULL, events |-> Len(guardrail_events)]]
    /\ UNCHANGED <<guardrail_events, guardrail_metrics, today, proc, feedback_call, guardVars>>

NextDetails == ClientLogEvent \/ ClientGetRecentEvents

SpecDetails == InitMonitorOnly /\ [][NextDetails]_vars

\* ------------------------------------------------ improvement opportunities
WindowDays == 30
HighFalsePositivePercent == 20
LowEfficacyPercent == 5
LowEfficacyInvocations == 50
FrequentPercent == 20
GoodAccuracyPercent == 10
RarePercent == 1
RecentLimit == 1000
PatternInstances == 10

\* dict.get(rate, 0), the sum of two rates, and a rate against a percentage.
RateOrZero(r) == IF r.present THEN r ELSE ZeroRate
RateSum(r, q) == Rate(r.num * q.den + q.num * r.den, r.den * q.den)
RateAbove(r, percent) == r.num * 100 > percent * r.den
RateBelow(r, percent) == r.num * 100 < percent * r.den

\* Line 418.
HighFalsePositive(m) ==
    RateAbove(RateOrZero(m.false_positive_rate), HighFalsePositivePercent)

\* Lines 432-434 with >= in place of >.
LowEfficacyFromThreshold(m) ==
    /\ RateBelow(RateSum(RateOrZero(m.block_rate), RateOrZero(m.modification_rate)),
                 LowEfficacyPercent)
    /\ m.invocations >= LowEfficacyInvocations

\* Lines 432-434.
LowEfficacy(m) ==
    /\ RateBelow(RateSum(RateOrZero(m.block_rate), RateOrZero(m.modification_rate)),
                 LowEfficacyPercent)
    /\ m.invocations > LowEfficacyInvocations

\* Lines 448 and 463.
FrequentlyTriggered(m, total_invocations) ==
    m.invocations * 100 > FrequentPercent * total_invocations
RarelyTriggered(m, total_invocations) ==
    m.invocations * 100 < RarePercent * total_invocations

Recommendation(guardrail, issue, instances) ==
    [guardrail |-> guardrail, issue |-> issue, instances |-> instances]

\* identify_improvement_opportunities, called at date now.
IdentifyImprovementOpportunities(metrics_table, events, now) ==
    LET metrics == GetMetrics(metrics_table, NULL, now - WindowDays, now)
        by == metrics.by_guardrail
        total == metrics.total_invocations
        Listed(Test(_)) ==
            {[guardrail |-> g, invocations |-> by[g].invocations] :
                g \in {h \in DOMAIN by : Test(by[h])}}
        Recommended(Test(_), issue) ==
            {Recommendation(g, issue, 0) : g \in {h \in DOMAIN by : Test(by[h])}}
        Frequent(m) == FrequentlyTriggered(m, total)
        Rare(m) == RarelyTriggered(m, total)
        Accurate(m) ==
            Frequent(m) /\ RateBelow(RateOrZero(m.false_positive_rate), GoodAccuracyPercent)
        false_positives ==
            SelectSeq(GetRecentEvents(events, RecentLimit, NULL, "block"),
                      LAMBDA e : e.user_feedback = "false_positive")
        count(g) == Len(SelectSeq(false_positives, LAMBDA e : e.guardrail_name = g))
    IN  [high_false_positive_guardrails |-> Listed(HighFalsePositive),
         low_efficacy_guardrails |-> Listed(LowEfficacy),
         frequently_triggered_guardrails |-> Listed(Frequent),
         rarely_triggered_guardrails |-> Listed(Rare),
         recommendations |->
             Recommended(HighFalsePositive, "High false positive rate")
             \cup Recommended(LowEfficacy, "Low intervention rate")
             \cup Recommended(Accurate, "Frequently triggered with good accuracy")
             \cup Recommended(Rare, "Rarely triggered")
             \cup {Recommendation(g, "Pattern of false positives", count(g)) :
                     g \in {h \in {false_positives[k].guardrail_name :
                                      k \in 1..Len(false_positives)} :
                               count(h) >= PatternInstances}}]

\* A call made on the monitor while a database was filled.
LogEventOf(guardrail_name, event_type, date) ==
    [op |-> "log_event", guardrail_name |-> guardrail_name, event_type |-> event_type,
     date |-> date, event_id |-> 0, feedback |-> NULL]
FeedbackOf(event_id, feedback) ==
    [op |-> "record_user_feedback", guardrail_name |-> NULL, event_type |-> NULL,
     date |-> 0, event_id |-> event_id, feedback |-> feedback]

\* The database after one more call, made when no other call is running.
Apply(db, c) ==
    IF c.op = "log_event"
    THEN [events |-> InsertEvent(db.events, c.date, c.guardrail_name, c.event_type,
                                 NoDetails),
          metrics |->
              WriteDailyMetrics(db.metrics, c.date, c.guardrail_name, c.event_type,
                  CHOOSE result \in
                      FetchOne(SelectMetricIds(db.metrics, c.date, c.guardrail_name)) : TRUE)]
    ELSE [events |-> SetFeedback(db.events, c.event_id, c.feedback),
          metrics |-> CountFeedback(db.metrics, db.events, c.event_id, c.feedback)]

\* The database after calls[lo..hi], one after the other; the first half
\* is computed before the second is entered.
RECURSIVE Replay(_, _, _, _)
Replay(db, calls, lo, hi) ==
    IF lo > hi THEN db
    ELSE IF lo = hi THEN Apply(db, calls[lo])
    ELSE LET mid == (lo + hi) \div 2
             half == Replay(db, calls, lo, mid)
         IN  IF Len(half.events) >= 0 /\ Len(half.metrics) >= 0
             THEN Replay(half, calls, mid + 1, hi)
             ELSE db

\* The calls a deployment made for one guardrail on one day: its blocks,
\* false_positive recorded once on each of the first marked of them, then
\* its modifications and its passes.  first is the id of its first event.
Profile(blocks, modifications, passes, marked) ==
    [blocks |-> blocks, modifications |-> modifications, passes |-> passes,
     marked |-> marked]
Size(profile) == profile.blocks + profile.modifications + profile.passes
CallsOf(profile, guardrail_name, date, first) ==
    [k \in 1..profile.blocks |-> LogEventOf(guardrail_name, "block", date)]
    \o [k \in 1..profile.marked |-> FeedbackOf(first + k - 1, "false_positive")]
    \o [k \in 1..profile.modifications |-> LogEventOf(guardrail_name, "modify", date)]
    \o [k \in 1..profile.passes |-> LogEventOf(guardrail_name, "pass", date)]

\* Days of use on either side of each threshold of the analysis.
Profiles ==
    {Profile(0, 0, 0, 0), Profile(0, 0, 1, 0),
     Profile(PatternInstances, 0, 0, PatternInstances),
     Profile(PatternInstances, 0, 0, PatternInstances - 1),
     Profile(0, 0, LowEfficacyInvocations, 0),
     Profile(0, 0, LowEfficacyInvocations + 1, 0),
     Profile(3, 0, 57, 0), Profile(1, 1, 58, 0),
     Profile(5, 0, 0, 1), Profile(4, 0, 0, 1), Profile(1, 3, 0, 1),
     Profile(0, 0, 20, 0), Profile(0, 0, 99, 0), Profile(0, 0, 100, 0),
     Profile(RecentLimit - PatternInstances, 0, 0, 0),
     Profile(RecentLimit - PatternInstances + 1, 0, 0, 0)}

\* A monitor that served two guardrails, content_safety before fact_check,
\* and is asked for its analysis up to a month later.
InitImprove ==
    /\ guardrails = [i \in 1..NGuardrails |-> DefaultGuardrail]
    /\ call = NoCall
    /\ chain = IdleChain
    /\ tool = IdleTool
    /\ threads = IdleThreads
    /\ proc = [p \in 1..NProc |-> NoProc]
    /\ feedback_call = NoFeedbackCall
    /\ client = NoClient
    /\ \E first \in Profiles, second \in Profiles, date \in 1..2 :
         LET calls == CallsOf(first, "content_safety", 1, 1)
                      \o CallsOf(second, "fact_check", date, Size(first) + 1)
             db == Replay([events |-> <<>>, metrics |-> <<>>], calls, 1, Len(calls))
         IN  /\ guardrail_events = db.events
             /\ guardrail_metrics = db.metrics
    /\ today \in {WindowDays + 1, WindowDays + 2}

IdentifyCall ==
    /\ ~client.identified
    /\ client' = [client EXCEPT
           !.identified = TRUE,
           !.opportunities =
               IdentifyImprovementOpportunities(guardrail_metrics, guardrail_events, today)]
    /\ UNCHANGED <<guardrail_events, guardrail_metrics, today, proc, feedback_call, guardVars>>

NextImprove == IdentifyCall

SpecImprove == InitImprove /\ [][NextImprove]_vars

\* ================================================================== claims
Balanced(metrics) ==
    metrics.invocations = metrics.blocks + metrics.modifications + metrics.passes

\* C1: after any sequence of process calls, calls that end in an exception
\* included, every guardrail's counters satisfy
\* invocations = blocks + modifications + passes.
C1_CountersBalanced ==
    \A i \in 1..NGuardrails : Balanced(guardrails[i].metrics)

\* The analysis a returned or raised call of process ran to its end.
Analysed == call.status # "none" /\ ~call.out.result.analysis.raised

SomeExtreme(g, analysis_result) ==
    \E c \in DOMAIN analysis_result.category_scores :
        analysis_result.category_scores[c] >= g.extreme_threshold

C4_CallLoggedInMonitor ==
    call.status = "returned" =>
        \E k \in 1..Len(guardrail_events) :
            /\ guardrail_events[k].guardrail_name = guardrails[call.guardrail].name
            /\ guardrail_events[k].event_type = call.out.verdict

LastInvoked == chain.invoked[Len(chain.invoked)]

\* C2: the chain stops at the first guardrail that blocks: no guardrail is
\* invoked after a block, the guardrails invoked are the first ones in
\* configured order, and when the chain returns, blocked is set exactly when
\* the last guardrail invoked blocked, blocking_guardrail being its name.
C2_ShortCircuit ==
    /\ \A j \in 1..Len(chain.invoked) :
          /\ chain.invoked[j].index = j
          /\ j < Len(chain.invoked) => chain.invoked[j].verdict # "block"
    /\ chain.pc = "returned" =>
          /\ Len(chain.results.guardrail_results) = Len(chain.invoked)
          /\ chain.results.blocked <=> LastInvoked.verdict = "block"
          /\ chain.results.blocked =>
                /\ chain.results.blocking_guardrail = guardrails[LastInvoked.index].name
                /\ chain.results.guardrail_results[Len(chain.invoked)].result.blocked
          /\ ~chain.results.blocked => Len(chain.invoked) = NGuardrails

\* C2's case: the chain returned blocked by a guardrail that is not the
\* last, so a later guardrail was left out.
C2_Witness ==
    /\ chain.pc = "returned"
    /\ chain.results.blocked
    /\ Len(chain.invoked) < NGuardrails

\* C9: the chain threads the content: the first guardrail is given the
\* chain's input and each later one the content the one before returned; a
\* chain that is not blocked returns what the last guardrail returned, and a
\* blocked chain returns the content as it was given to the blocking
\* guardrail.
C9_ContentThreaded ==
    /\ \A j \in 1..Len(chain.invoked) :
          chain.invoked[j].input =
              IF j = 1 THEN chain.content ELSE chain.invoked[j - 1].output
    /\ chain.pc = "returned" =>
          chain.current_content =
              IF chain.results.blocked THEN LastInvoked.input ELSE LastInvoked.output

\* C9's case: a guardrail modified the content and a later guardrail
\* blocked what it was given.
C9_Witness ==
    /\ chain.pc = "returned"
    /\ chain.results.blocked
    /\ Len(chain.invoked) >= 2
    /\ chain.invoked[1].verdict = "modify"
    /\ chain.current_content # chain.content

\* C10: when every guardrail of the chain passes, the chain returns the
\* original input and its result is not blocked.
C10_PassThrough ==
    ( /\ chain.pc = "returned"
      /\ Len(chain.invoked) = NGuardrails
      /\ \A j \in 1..Len(chain.invoked) : chain.invoked[j].verdict = "pass" )
    => /\ chain.current_content = chain.content
       /\ ~chain.results.blocked

\* C10's case: a chain whose guardrails all passed a text that matches a
\* pattern.
C10_Witness ==
    /\ chain.pc = "returned"
    /\ Len(chain.invoked) = NGuardrails
    /\ \A j \in 1..Len(chain.invoked) : chain.invoked[j].verdict = "pass"
    /\ chain.content.toks # <<>>

\* ---------------------------------------------------------- monitor claims
Idle == \A p \in 1..NProc : proc[p].pc = "idle"

\* The events of a guardrail, and those of one day.
EventsOf(g) == SelectSeq(guardrail_events, LAMBDA e : e.guardrail_name = g)
EventsOn(d, g) == SelectSeq(EventsOf(g), LAMBDA e : e.date = d)
Typed(events, t) == Len(SelectSeq(events, LAMBDA e : e.event_type = t))

\* The rows of a guardrail, and those of one day.
RowsOf(g) == SelectSeq(guardrail_metrics, LAMBDA r : r.guardrail_name = g)
RowsOn(d, g) == SelectSeq(RowsOf(g), LAMBDA r : r.date = d)

\* The counters of rows count exactly the events given.
Counted(rows, events) ==
    /\ SumOver(rows, "invocations") = Len(events)
    /\ SumOver(rows, "blocks") = Typed(events, "block")
    /\ SumOver(rows, "modifications") = Typed(events, "modify")
    /\ SumOver(rows, "passes") = Typed(events, "pass")

\* C5: no increment is lost under concurrent log_event calls: once every
\* call has returned, the counters recorded for a guardrail equal the number
\* of its events, in all and of each type; while the day has not changed
\* they are the counters recorded for that day and guardrail.
C5_NoLostIncrement ==
    Idle =>
        \A g \in GuardrailNames :
            /\ Counted(RowsOf(g), EventsOf(g))
            /\ today = 1 => Counted(RowsOn(1, g), EventsOn(1, g))

\* C5's case: two producers logged the first events of a guardrail's day at
\* the same time (each found no row and inserted one), and both returned.
C5_Witness ==
    /\ Idle
    /\ \E g \in GuardrailNames :
          /\ Len(EventsOn(1, g)) >= 2
          /\ Len(RowsOn(1, g)) >= 2

\* C6: guardrail_metrics holds at most one row per (date, guardrail_name).
C6_OneRowPerDayAndGuardrail ==
    \A j, k \in 1..Len(guardrail_metrics) :
        ( /\ guardrail_metrics[j].date = guardrail_metrics[k].date
          /\ guardrail_metrics[j].guardrail_name = guardrail_metrics[k].guardrail_name )
        => j = k

\* C7: the event and its increment appear together: in every state the
\* number of events of a day and guardrail equals the invocations recorded
\* for that day and guardrail.
C7_EventAndIncrementTogether ==
    \A d \in 1..MaxDay, g \in GuardrailNames :
        SumOver(RowsOn(d, g), "invocations") = Len(EventsOn(d, g))

\* C8: after a series of log_event calls made one after another on one day,
\* with b block, m modify and p pass events for a guardrail, the one row of
\* that day and guardrail has blocks = b, modifications = m, passes = p and
\* invocations = b + m + p, and get_metrics reports the rates b/(b+m+p),
\* m/(b+m+p) and p/(b+m+p), in all and for the guardrail.
C8_RowAndRates ==
    today = 1 =>
        \A g \in GuardrailNames :
            LET events == EventsOf(g)
                b == Typed(events, "block")
                m == Typed(events, "modify")
                p == Typed(events, "pass")
                report == GetMetrics(guardrail_metrics, g, 0, 0)
            IN  (events # <<>> /\ Len(events) = b + m + p) =>
                    /\ Len(RowsOn(1, g)) = 1
                    /\ RowsOn(1, g)[1].blocks = b
                    /\ RowsOn(1, g)[1].modifications = m
                    /\ RowsOn(1, g)[1].passes = p
                    /\ RowsOn(1, g)[1].invocations = b + m + p
                    /\ RateEq(report.block_rate, Rate(b, b + m + p))
                    /\ RateEq(report.modification_rate, Rate(m, b + m + p))
                    /\ RateEq(report.pass_rate, Rate(p, b + m + p))
                    /\ RateEq(report.by_guardrail[g].block_rate, Rate(b, b + m + p))
                    /\ RateEq(report.by_guardrail[g].modification_rate, Rate(m, b + m + p))
                    /\ RateEq(report.by_guardrail[g].pass_rate, Rate(p, b + m + p))

\* C8's case: a guardrail with three events on the first day, of more than
\* one type, a modify among them.
C8_Witness ==
    /\ today = 1
    /\ \E g \in GuardrailNames :
          /\ Len(EventsOf(g)) >= 3
          /\ Typed(EventsOf(g), "modify") >= 1
          /\ Typed(EventsOf(g), "pass") >= 1
          /\ Typed(EventsOf(g), "error") = 0

\* ------------------------------------------------------------ C11 .. C20
\* results.get("modified", False) on the chain's aggregate result.
ChainModified(results) ==
    IF "modified" \in DOMAIN results THEN results.modified ELSE FALSE

\* C11: when the chain returns without a block, its aggregate result has
\* modified = true exactly when some guardrail of the chain returned
\* modified = true.
C11_ChainReportsModified ==
    (chain.pc = "returned" /\ ~chain.results.blocked) =>
        (ChainModified(chain.results)
            <=> \E j \in 1..Len(chain.invoked) : chain.invoked[j].verdict = "modify")

\* C12: in every analysis result every category score lies in [0, 1], and
\* flagged_categories holds exactly the categories whose final score is >=
\* the threshold, each once.
C12_ScoresAndFlags ==
    Analysed =>
        LET g == guardrails[call.guardrail]
            a == call.out.result.analysis
        IN  /\ \A c \in DOMAIN a.category_scores :
                  a.category_scores[c] >= 0 /\ a.category_scores[c] <= 100
            /\ Range(a.flagged_categories)
                  = {c \in DOMAIN a.category_scores : a.category_scores[c] >= g.threshold}
            /\ Cardinality(Range(a.flagged_categories)) = Len(a.flagged_categories)

\* C12's case: a category no pattern matched was flagged by an optional
\* layer, at a threshold above 0.
C12_Witness ==
    /\ Analysed
    /\ guardrails[call.guardrail].threshold > 0
    /\ "hate" \in Range(call.out.result.analysis.flagged_categories)

\* The events a call of record_user_feedback can name, and the call made in
\* a step.
EventIds == 1..Len(guardrail_events)
FeedbackCalled == feedback_call'.n # feedback_call.n

\* A counter of feedback summed over the rows of a day and guardrail.
FeedbackCount(metrics, d, g, field) ==
    SumOver(SelectSeq(metrics, LAMBDA r : r.date = d /\ r.guardrail_name = g), field)

\* C13: an event is annotated with feedback at most once: no step changes
\* a user_feedback that is set, changes another field of an event, or
\* deletes an event.
C13_FeedbackOnce ==
    [][\A k \in EventIds :
          /\ k <= Len(guardrail_events')
          /\ guardrail_events'[k].id = guardrail_events[k].id
          /\ guardrail_events'[k].date = guardrail_events[k].date
          /\ guardrail_events'[k].guardrail_name = guardrail_events[k].guardrail_name
          /\ guardrail_events'[k].event_type = guardrail_events[k].event_type
          /\ guardrail_events[k].user_feedback # NULL
                => guardrail_events'[k].user_feedback = guardrail_events[k].user_feedback]_vars

\* C14: every call of record_user_feedback with false_positive (or
\* false_negative) on an existing event increases the false_positives (or
\* false_negatives) counter of the event's day and guardrail by exactly 1.
C14_FeedbackCountsEveryCall ==
    [][(FeedbackCalled /\ feedback_call'.event_id \in EventIds) =>
          LET e == guardrail_events[feedback_call'.event_id]
              before(field) == FeedbackCount(guardrail_metrics, e.date, e.guardrail_name, field)
              after(field) == FeedbackCount(guardrail_metrics', e.date, e.guardrail_name, field)
          IN  /\ feedback_call'.feedback = "false_positive"
                    => after("false_positives") = before("false_positives") + 1
              /\ feedback_call'.feedback = "false_negative"
                    => after("false_negatives") = before("false_negatives") + 1]_vars

\* C15: a call of record_user_feedback with an id no event has returns a
\* not-found outcome and leaves every row of guardrail_metrics unchanged.
C15_UnknownEventNotFound ==
    [][(FeedbackCalled /\ feedback_call'.event_id \notin EventIds) =>
          /\ feedback_call'.returned = "not_found"
          /\ guardrail_metrics' = guardrail_metrics]_vars

\* C17: every rate of a get_metrics report whose denominator is 0 is
\* present and 0.0: the four global rates, and the rates of each
\* per-guardrail entry.
C17_RatesZeroOnZeroDenominator ==
    \A name \in GuardrailNames \cup {NULL} :
        LET report == GetMetrics(guardrail_metrics, name, 0, 0)
        IN  /\ report.total_invocations = 0 =>
                  /\ RateEq(report.block_rate, ZeroRate)
                  /\ RateEq(report.modification_rate, ZeroRate)
                  /\ RateEq(report.pass_rate, ZeroRate)
            /\ report.total_blocks + report.total_modifications = 0 =>
                  RateEq(report.false_positive_rate, ZeroRate)
            /\ \A g \in DOMAIN report.by_guardrail :
                  LET entry == report.by_guardrail[g]
                  IN  /\ entry.invocations = 0 =>
                            /\ RateEq(entry.block_rate, ZeroRate)
                            /\ RateEq(entry.modification_rate, ZeroRate)
                            /\ RateEq(entry.pass_rate, ZeroRate)
                      /\ entry.blocks + entry.modifications = 0 =>
                            RateEq(entry.false_positive_rate, ZeroRate)

\* C16: an exception raised by an optional layer does not leave process:
\* the call returns a verdict and the counters are balanced as after a
\* normal call.
C16_LayerFailureContained ==
    (call.status # "none" /\ call.out.result.analysis.raised) =>
        /\ call.status = "returned"
        /\ call.out.verdict \in {"block", "modify", "pass"}
        /\ Balanced(guardrails[call.guardrail].metrics)

\* C18: run never returns the tool's output when the chain blocked it: it
\* then returns the error structure naming the blocking guardrail and its
\* reason; otherwise it returns the content the last guardrail returned.
C18_BlockedOutputWithheld ==
    tool.pc = "returned" =>
        IF \E j \in 1..Len(chain.invoked) : chain.invoked[j].verdict = "block"
        THEN /\ tool.returned.is_error
             /\ tool.returned.content # tool.original_output \/ tool.original_output = NoContent
             /\ tool.returned.blocking_guardrail = guardrails[LastInvoked.index].name
             /\ tool.returned.blocking_reason
                   = chain.results.guardrail_results[Len(chain.invoked)].result.reason
             /\ tool.returned.blocking_reason.text = "Content flagged for"
        ELSE /\ ~tool.returned.is_error
             /\ tool.returned.content = LastInvoked.output

\* C18's case: the tool returned a text that matches patterns and the
\* chain blocked it at its second guardrail.
C18_Witness ==
    /\ tool.pc = "returned"
    /\ tool.returned.is_error
    /\ tool.original_output.toks # <<>>
    /\ Len(chain.invoked) = 2

\* C19: whenever process returns blocked = true, the reason it returns
\* names at least one flagged category.
C19_BlockReasonNamesCategory ==
    (call.status = "returned" /\ call.out.result.blocked) =>
        Len(call.out.result.reason.cats) >= 1

\* C20: process on the empty string returns the pass verdict and the
\* content unchanged, for every threshold, extreme threshold and set of
\* categories (here for guardrails that run the pattern layer alone).
C20_EmptyStringPasses ==
    ( /\ call.status # "none"
      /\ call.content = NoContent
      /\ ~guardrails[call.guardrail].use_external_api
      /\ ~guardrails[call.guardrail].llm_service )
    => /\ call.out.verdict = "pass"
       /\ call.out.result.passed
       /\ call.out.content = call.content

\* ------------------------------------------------------------ C21 .. C30
\* C21: a call that returns the modify verdict returns the original content
\* with the warning banner before it, the banner naming the flagged
\* categories in the order of flagged_categories; a call that returns block
\* or pass returns its input.
C21_BannerPrepended ==
    call.status = "returned" =>
        IF call.out.verdict = "modify"
        THEN /\ Len(call.out.content.toks) = Len(call.content.toks) + 1
             /\ Head(call.out.content.toks).kind = "banner"
             /\ Head(call.out.content.toks).cats
                   = call.out.result.analysis.flagged_categories
             /\ Tail(call.out.content.toks) = call.content.toks
        ELSE call.out.content = call.content

\* C21's case: a text of two fragments came back under a banner.
C21_Witness ==
    /\ call.status = "returned"
    /\ call.out.verdict = "modify"
    /\ Len(call.content.toks) = 2
    /\ call.out.result.analysis.flagged_categories # <<>>

\* C22: when threads share a guardrail, no increment is lost: once every
\* call has returned, each counter equals what the same calls produce when
\* run one after another.
C22_NoLostCounterIncrement ==
    (\A t \in 1..NThreads : threads.run[t].pc = "idle") =>
        guardrails[1].metrics = threads.expected

\* C25: every call of process that returns increases invocations by exactly
\* 1 and the counter of its verdict by exactly 1, and leaves the two other
\* counters unchanged.
C25_CountedOnce ==
    [][(guardrails' # guardrails /\ call'.status = "returned") =>
          LET before == guardrails[1].metrics
              after == guardrails'[1].metrics
              inc(verdict) == IF call'.out.verdict = verdict THEN 1 ELSE 0
          IN  /\ after.invocations = before.invocations + 1
              /\ after.blocks = before.blocks + inc("block")
              /\ after.modifications = before.modifications + inc("modify")
              /\ after.passes = before.passes + inc("pass")]_vars

\* The cascade as C26 states it, for the last call of process: the scores
\* of the pattern layer, which layers are consulted, and the score each
\* consulted layer reports for a category (0 when it reports none).
CallPatternFlagged ==
    \E c \in guardrails[call.guardrail].categories :
        PatternScore(c, Str(call.content)) >= guardrails[call.guardrail].threshold

LayerFlagged(response) ==
    \E c \in guardrails[call.guardrail].categories \cap DOMAIN response.category_scores :
        response.category_scores[c] >= guardrails[call.guardrail].threshold

CallApiUsed == guardrails[call.guardrail].use_external_api /\ ~CallPatternFlagged

CallLlmUsed ==
    /\ guardrails[call.guardrail].llm_service
    /\ ~CallPatternFlagged
    /\ ~(CallApiUsed /\ LayerFlagged(call.api))

LayerScore(used, response, c) ==
    IF used /\ c \in DOMAIN response.category_scores
    THEN response.category_scores[c] ELSE 0

\* C26: the layers run as a cascade: the pattern layer scores every
\* configured category; the external API is consulted only if enabled and
\* the pattern layer flagged nothing; the LLM only if enabled and neither
\* earlier layer flagged anything; each category's final score is the
\* maximum of the pattern score and the scores of the layers consulted.
C26_Cascade ==
    Analysed =>
        LET g == guardrails[call.guardrail]
            a == call.out.result.analysis
        IN  /\ DOMAIN a.category_scores = g.categories
            /\ \A c \in g.categories :
                  a.category_scores[c] =
                      Max(PatternScore(c, Str(call.content)),
                          Max(LayerScore(CallApiUsed, call.api, c),
                              LayerScore(CallLlmUsed, call.llm, c)))

\* C26's case: the API flagged a category, so the LLM, configured and able
\* to answer, was left out.
C26_Witness ==
    /\ Analysed
    /\ CallApiUsed
    /\ LayerFlagged(call.api)
    /\ guardrails[call.guardrail].llm_service
    /\ ~call.llm.raised
    /\ \E c \in guardrails[call.guardrail].categories \cap DOMAIN call.llm.category_scores :
          call.llm.category_scores[c] > call.out.result.analysis.category_scores[c]

\* The number of matches of a category's pattern in a text, and the number
\* of the category's patterns that match it (each category has one).
Matches(c, text) ==
    Cardinality({k \in 1..Len(text) : FragmentMatches(c, text[k]) > 0})

MatchedPatternCount(c, text) == IF Matches(c, text) > 0 THEN 1 ELSE 0

\* C27 as stated: the pattern-layer score of a configured category is
\* min(1.0, 0.2 * the number of the category's patterns that match the
\* text), however often a pattern occurs.
C27_ScoreByMatchedPatterns ==
    Analysed =>
        \A c \in guardrails[call.guardrail].categories :
            call.out.result.analysis.category_scores[c]
                = Min(100, MatchedPatternCount(c, Str(call.content)) * PatternWeight)

\* C27 amended: the pattern-layer score of a configured category is
\* min(1.0, 0.2 * the number of matches of the category's pattern in the
\* text): one match gives 0.2, five or more give 1.0.
C27_ScoreByMatches ==
    Analysed =>
        \A c \in guardrails[call.guardrail].categories :
            call.out.result.analysis.category_scores[c]
                = Min(100, Matches(c, Str(call.content)) * PatternWeight)

\* C27's case: a pattern matched more than five times and its category's
\* score is 1.0.
C27_Witness ==
    /\ Analysed
    /\ \E c \in guardrails[call.guardrail].categories :
          /\ Matches(c, Str(call.content)) > 5
          /\ call.out.result.analysis.category_scores[c] = 100

\* C28: every row of guardrail_metrics satisfies invocations = blocks +
\* modifications + passes, whatever event types were logged.
C28_RowBalanced ==
    \A k \in 1..Len(guardrail_metrics) : Balanced(guardrail_metrics[k])

\* C29: every row of guardrail_metrics satisfies false_positives <= blocks
\* + modifications, so that every false_positive_rate get_metrics reports
\* is at most 1.0.
C29_FalsePositivesBounded ==
    /\ \A k \in 1..Len(guardrail_metrics) :
          guardrail_metrics[k].false_positives
              <= guardrail_metrics[k].blocks + guardrail_metrics[k].modifications
    /\ LET report == GetMetrics(guardrail_metrics, NULL, 0, 0)
       IN  /\ report.false_positive_rate.num <= report.false_positive_rate.den
           /\ \A g \in DOMAIN report.by_guardrail :
                 report.by_guardrail[g].false_positive_rate.num
                     <= report.by_guardrail[g].false_positive_rate.den

\* C30: the banner of a modification adds no pattern match: the content a
\* guardrail returns with the modify verdict has the pattern score of the
\* content it was given, in every category.
C30_BannerScoreNeutral ==
    \A j \in 1..Len(chain.invoked) :
        chain.invoked[j].verdict = "modify" =>
            \A c \in Range(AllCategories) :
                PatternScore(c, Str(chain.invoked[j].output))
                    = PatternScore(c, Str(chain.invoked[j].input))

\* The rows of the 31 dates the analysis reads, today and the 30 before it.
InWindow(r) == r.date >= today - 30 /\ r.date <= today
WindowCount(g, field) ==
    SumOver(SelectSeq(guardrail_metrics, LAMBDA r : r.guardrail_name = g /\ InWindow(r)),
            field)
WindowTotal == SumOver(SelectSeq(guardrail_metrics, InWindow), "invocations")
Known(g) ==
    \E k \in 1..Len(guardrail_metrics) :
        guardrail_metrics[k].guardrail_name = g /\ InWindow(guardrail_metrics[k])
ListedIn(list, g) == \E entry \in list : entry.guardrail = g
RecentBlocks ==
    LET blocks == SelectSeq(guardrail_events, LAMBDA e : e.event_type = "block")
    IN  SubSeq(blocks, Max(1, Len(blocks) - 999), Len(blocks))
MarkedCount(g) ==
    Cardinality({k \in 1..Len(RecentBlocks) :
                    /\ RecentBlocks[k].guardrail_name = g
                    /\ RecentBlocks[k].user_feedback = "false_positive"})

\* C23: identify_improvement_opportunities lists a guardrail that has
\* metrics in the trailing 30 days as high-false-positive iff its
\* false_positive_rate is above 0.2, as low-efficacy iff block_rate +
\* modification_rate is below 0.05 and its invocations are above 50, as
\* frequently triggered iff its invocations are above 20% of the total, as
\* rarely triggered iff they are below 1% of the total; a guardrail without
\* metrics in the window is in no list; and the "Pattern of false
\* positives" recommendation is made for a guardrail iff at least 10 of the
\* 1000 most recent block events are its own and carry false_positive.
C23_OpportunitiesByThreshold ==
    client.identified =>
      \A g \in GuardrailNames :
        LET o == client.opportunities
            invocations == WindowCount(g, "invocations")
            interventions == WindowCount(g, "blocks") + WindowCount(g, "modifications")
            false_positives == WindowCount(g, "false_positives")
        IN  /\ ListedIn(o.high_false_positive_guardrails, g)
                <=> ( /\ Known(g) /\ invocations > 0 /\ interventions > 0
                      /\ 5 * false_positives > interventions )
            /\ ListedIn(o.low_efficacy_guardrails, g)
                <=> ( /\ Known(g) /\ 20 * interventions < invocations
                      /\ invocations > 50 )
            /\ ListedIn(o.frequently_triggered_guardrails, g)
                <=> (Known(g) /\ 5 * invocations > WindowTotal)
            /\ ListedIn(o.rarely_triggered_guardrails, g)
                <=> (Known(g) /\ 100 * invocations < WindowTotal)
            /\ (\E r \in o.recommendations :
                    r.guardrail = g /\ r.issue = "Pattern of false positives")
                <=> MarkedCount(g) >= 10

\* An analysis that lists a guardrail with a high false positive rate and
\* a pattern of false positives, another of low efficacy, both frequent.
C23_Witness ==
    /\ client.identified
    /\ ListedIn(client.opportunities.high_false_positive_guardrails, "content_safety")
    /\ ListedIn(client.opportunities.low_efficacy_guardrails, "fact_check")
    /\ ListedIn(client.opportunities.frequently_triggered_guardrails, "fact_check")
    /\ \E r \in client.opportunities.recommendations :
           r.issue = "Pattern of false positives" /\ r.instances = 10

\* A value JSON has a notation for: null, a boolean, a number, a string, a
\* list of such values, a dict of such values under str keys.
RECURSIVE JsonRepresentable(_)
JsonRepresentable(v) ==
    CASE v.t \in {"none", "bool", "int", "float", "str"} -> TRUE
      [] v.t = "list" -> \A k \in 1..Len(v.items) : JsonRepresentable(v.items[k].val)
      [] v.t = "dict" ->
           \A k \in 1..Len(v.items) :
               v.items[k].key.t = "str" /\ JsonRepresentable(v.items[k].val)
      [] OTHER -> FALSE

ExampleDetails ==
    PyDict(<<Member(PyStr("flagged_categories"), PyList(<<PyStr("hate")>>)),
             Member(PyStr("category_scores"), Scores)>>)

\* C24: an event logged with JSON-representable details d comes back from
\* get_recent_events with details equal to d, and it does come back when
\* no filter excludes it and the limit is not below the number of events.
C24_DetailsRoundTrip ==
    client.fetched =>
      \A j \in 1..Len(client.logged) :
        LET l == client.logged[j]
        IN  /\ \A k \in 1..Len(client.recent_events) :
                 ( /\ client.recent_events[k].id = l.event_id
                   /\ JsonRepresentable(l.details) )
                 => client.recent_events[k].details = l.details
            /\ ( /\ client.fetch.guardrail_name = NULL
                 /\ client.fetch.limit >= client.fetch.events
                 /\ l.event_id <= client.fetch.events )
               => \E k \in 1..Len(client.recent_events) :
                      client.recent_events[k].id = l.event_id

\* The documented example was logged before another event and
\* returned after it, with its nested list and dict.
C24_Witness ==
    /\ client.fetched
    /\ Len(client.recent_events) = 2
    /\ client.logged[1].details = ExampleDetails
    /\ client.recent_events[2].id = 1
    /\ client.recent_events[2].details = ExampleDetails
    /\ client.recent_events[2].details.items[2].val.items[1].val = PyFloat(95)
====
